---- MODULE Spec2Model ----
(***************************************************************************)
(* cols (src/main.rs): a two-pass pretty-printer for tab-separated text.   *)
(* The model follows main(): DelimitedFile::new, the three setters,        *)
(* read_headers, analyze_rows, seek_to_data, print_aligned_header and the  *)
(* two print_aligned_rows calls.  Loops are modelled one iteration per     *)
(* step.  The input file is revealed line by line as the reader first      *)
(* reaches each line; once revealed, a line never changes, so the second   *)
(* pass re-reads what the first pass read.                                 *)
(***************************************************************************)
EXTENDS Integers, Sequences, FiniteSets, TLC

VARIABLES
    pc,                \* the call of main() (or of the test) that runs next
    file,              \* the lines of the input revealed so far; file[1] is the header line
    closed,            \* TRUE once end-of-stream has been observed after file
    pos,               \* reader: byte offset of the next read
    cols,              \* DelimitedFile.cols
    header_bytes,      \* DelimitedFile.header_bytes
    header_repeat,     \* DelimitedFile.header_repeat : Option<u16>
    max_value_length,  \* DelimitedFile.max_value_length : Option<u16>
    borders,           \* DelimitedFile.borders
    line_num,          \* local of print_aligned_rows
    out,               \* what has been written to stdout, in order
    status,            \* process exit status, -1 while running
    fault,             \* panic message, "none" when no panic
    werr,              \* kind of the write error the sink returned, "none" if none
    rerr,              \* the call in which a read_line returned Err, "none" if none
    seen               \* indices (in file) of the lines analyze_rows parsed

vars == <<pc, file, closed, pos, cols, header_bytes, header_repeat,
          max_value_length, borders, line_num, out, status, fault, werr,
          rerr, seen>>

----------------------------------------------------------------------------
(* Bounds of the model                                                     *)

MaxRows == 3        \* data lines of the input, in a run of main()
MaxLibRows == 2     \* data lines of the input, in a run of the library calls
MaxFields == 2      \* fields on one line

(* Program constants                                                       *)

U16 == 65536        \* max_length, line_num, header_repeat are u16

----------------------------------------------------------------------------
(* Strings.  A string is modelled by its length, by whether it is framed   *)
(* by white space (pad), and by whether all its characters are decimal     *)
(* digits.  The empty string has len = 0 and, vacuously, digits = TRUE.    *)

Str(p, n, d) == [pad |-> p, len |-> n, digits |-> d]

EmptyStr == Str(0, 0, TRUE)

\* str::len
StrLen(s) == s.pad + s.len

\* str::trim
Trim(s) == Str(0, s.len, s.digits)

\* `as u16`
AsU16(n) == n % U16

Max(a, b) == IF a >= b THEN a ELSE b
Min(a, b) == IF a <= b THEN a ELSE b

\* value.parse::<f64>().is_ok(): the empty string and white space are rejected
ParseF64Ok(s) == s.pad = 0 /\ s.len > 0 /\ s.digits

None == [some |-> FALSE, v |-> 0]
Some(n) == [some |-> TRUE, v |-> n]

----------------------------------------------------------------------------
(* Columns                                                                 *)

\* Column::new
ColumnNew(name) ==
    [name |-> Trim(name), kind |-> "Numeric", max_length |-> AsU16(StrLen(name))]

\* Column::update without the Textual => Textual arm: the kind follows the
\* last value alone.
ColumnUpdate_NoLatch(col, value) ==
    [name |-> col.name,
     max_length |-> Max(col.max_length, AsU16(StrLen(value))),
     kind |-> IF ParseF64Ok(value) THEN "Numeric" ELSE "Textual"]

\* Column::update
ColumnUpdate(col, value) ==
    [name |-> col.name,
     max_length |-> Max(col.max_length, AsU16(StrLen(value))),
     kind |-> IF col.kind = "Textual" THEN "Textual"
              ELSE IF ParseF64Ok(value) THEN "Numeric" ELSE "Textual"]

----------------------------------------------------------------------------
(* Lines and the reader                                                    *)

\* A line of the file: its raw fields, whether a line terminator ends it,
\* and whether it is valid UTF-8 (read_line returns Err otherwise).
Line(fs, ok) == [fields |-> fs, nl |-> TRUE, ok |-> ok]

\* What read_line leaves in the buffer at end-of-stream: "", zero bytes.
EofBuf == [fields |-> <<EmptyStr>>, nl |-> FALSE, ok |-> TRUE]

RECURSIVE SumLen(_)
SumLen(fs) == IF fs = <<>> THEN 0 ELSE StrLen(Head(fs)) + SumLen(Tail(fs))

\* Bytes a line occupies: fields, the tabs between them, the terminator.
LineBytes(l) == SumLen(l.fields) + (Len(l.fields) - 1) + (IF l.nl THEN 1 ELSE 0)

RECURSIVE Offset(_, _)
\* Byte offset at which line i+1 of f starts.
Offset(f, i) == IF i = 0 THEN 0 ELSE Offset(f, i - 1) + LineBytes(f[i])

\* Index of the line the reader at byte offset p reads next.
LineIndexAt(f, p) == 1 + Cardinality({i \in 1..Len(f) : Offset(f, i) <= p})

\* DelimitedFile::line_parse: split on tab, trim each piece (the trim also
\* removes the line terminator from the last piece).
line_parse(l) == [i \in 1..Len(l.fields) |-> Trim(l.fields[i])]

\* The outcomes of the next read_line: the line at the reader's offset if
\* it is already known, else end-of-stream or a line not seen before.
\* D: the lines the input may hold there; R: the most lines after the first.
Reads(D, R) ==
    LET idx == LineIndexAt(file, pos) IN
    IF idx <= Len(file) THEN {file[idx]}
    ELSE IF closed \/ Len(file) >= 1 + R THEN {EofBuf}
    ELSE D \cup {EofBuf}

\* BufRead::read_line consumes the line it returns, and also the bytes of a
\* line it rejects as invalid UTF-8.
Consume(l) ==
    /\ pos' = pos + LineBytes(l)
    /\ file' = IF LineIndexAt(file, pos) > Len(file) /\ l.nl
               THEN Append(file, l) ELSE file
    /\ closed' = (closed \/ ~l.nl)

----------------------------------------------------------------------------
(* Rendering                                                               *)

\* print_length taking the larger of max_length and the cap.
print_length_Max(col) ==
    IF max_value_length.some
    THEN Max(col.max_length, max_value_length.v)
    ELSE col.max_length

\* DelimitedFile::print_length
print_length(col) ==
    IF max_value_length.some
    THEN Min(col.max_length, max_value_length.v)
    ELSE col.max_length

\* DelimitedFile::format_value: the number of characters of the cell (the
\* value cut to print_length, padded to print_length, plus the separator).
format_value(value, col) ==
    LET truncated == IF print_length(col) < StrLen(value)
                     THEN print_length(col) ELSE StrLen(value)
    IN Max(truncated, print_length(col)) + 1

\* A piece of output: what it is, the data line it renders (0: none), the
\* number of cells in it and the number of characters written.
Piece(t, r, n, w) == [t |-> t, row |-> r, n |-> n, w |-> w]

NL == Piece("nl", 0, 0, 1)

RECURSIVE RuleWidth(_)
RuleWidth(cs) == IF cs = <<>> THEN 0
                 ELSE print_length(Head(cs)) + 1 + RuleWidth(Tail(cs))

RECURSIVE NamesWidth(_)
NamesWidth(cs) ==
    IF cs = <<>> THEN 0
    ELSE Max(format_value(Head(cs).name, Head(cs)), print_length(Head(cs)))
         + NamesWidth(Tail(cs))

RECURSIVE CellsWidth(_, _)
\* The cells of the first Len(values) columns.
CellsWidth(values, cs) ==
    IF values = <<>> \/ cs = <<>> THEN 0
    ELSE format_value(Head(values), Head(cs)) + CellsWidth(Tail(values), Tail(cs))

\* What print_aligned_header writes.
HeaderBlock ==
    LET rule == Piece("rule", 0, Len(cols), RuleWidth(cols))
        names == Piece("names", 0, Len(cols), NamesWidth(cols))
    IN IF borders THEN <<rule, NL, names, NL, rule, NL>> ELSE <<names>>

\* Outcomes of the writes of one step: success, or the sink's error.
WriteOutcomes == {"ok", "BrokenPipe", "Other"}

----------------------------------------------------------------------------
(* main()                                                                  *)

Init ==
    /\ pc = "new"
    /\ file = <<>>
    /\ closed = FALSE
    /\ pos = 0
    /\ cols = <<>>
    /\ header_bytes = 0
    /\ header_repeat = None
    /\ max_value_length = None
    /\ borders = FALSE
    /\ line_num = 0
    /\ out = <<>>
    /\ status = -1
    /\ fault = "none"
    /\ werr = "none"
    /\ rerr = "none"
    /\ seen = <<>>

\* main, lines 239-249: the three setters, from the parsed arguments.
configure(HR, MVL, B) ==
    /\ pc = "new"
    /\ header_repeat' \in HR
    /\ max_value_length' \in MVL
    /\ borders' \in B
    /\ pc' = "read_headers"
    /\ UNCHANGED <<file, closed, pos, cols, header_bytes, line_num, out,
                   status, fault, werr, rerr, seen>>

\* read_headers building no column when the header read returned 0 bytes.
HeaderColumns_SkipEmpty(l) ==
    IF LineBytes(l) = 0 THEN <<>>
    ELSE [i \in 1..Len(line_parse(l)) |-> ColumnNew(line_parse(l)[i])]

\* The columns read_headers builds from the header buffer.
HeaderColumns(l) ==
    [i \in 1..Len(line_parse(l)) |-> ColumnNew(line_parse(l)[i])]

\* DelimitedFile::read_headers, and the `?` of main on it.  In: the inputs
\* the run may be given.
read_headers(In) ==
    /\ pc = "read_headers"
    /\ \E l \in Reads(In.headers, In.rows) :
         /\ Consume(l)
         /\ IF l.ok
            THEN /\ header_bytes' = LineBytes(l)
                 /\ cols' = HeaderColumns(l)
                 /\ pc' = "analyze_rows"
                 /\ UNCHANGED <<status, rerr>>
            ELSE /\ rerr' = "read_headers"
                 /\ status' = 1
                 /\ pc' = "exited"
                 /\ UNCHANGED <<header_bytes, cols>>
    /\ UNCHANGED <<header_repeat, max_value_length, borders, line_num, out,
                   fault, werr, seen>>

\* The body of the loop of analyze_rows on one parsed line.
AnalyzeLine(cs, line) ==
    [i \in 1..Len(cs) |-> IF i <= Len(line) THEN ColumnUpdate(cs[i], line[i]) ELSE cs[i]]

\* DelimitedFile::analyze_rows, one iteration of its loop.  The loop ends
\* at end-of-stream and also when read_line returns Err; both return Ok.
analyze_rows(In) ==
    /\ pc = "analyze_rows"
    /\ \E l \in Reads(In.lines, In.rows) :
         /\ Consume(l)
         /\ IF ~l.ok
            THEN /\ rerr' = "analyze_rows"
                 /\ pc' = "seek_to_data"
                 /\ UNCHANGED <<cols, seen>>
            ELSE IF LineBytes(l) = 0
            THEN /\ pc' = "seek_to_data"
                 /\ UNCHANGED <<cols, seen, rerr>>
            ELSE /\ cols' = AnalyzeLine(cols, line_parse(l))
                 /\ seen' = Append(seen, LineIndexAt(file, pos))
                 /\ UNCHANGED <<pc, rerr>>
    /\ UNCHANGED <<header_bytes, header_repeat, max_value_length, borders,
                   line_num, out, status, fault, werr>>

\* DelimitedFile::seek_to_data
seek_to_data ==
    /\ pc = "seek_to_data"
    /\ pos' = header_bytes
    /\ pc' = "print_aligned_header"
    /\ UNCHANGED <<file, closed, cols, header_bytes, header_repeat,
                   max_value_length, borders, line_num, out, status, fault,
                   werr, rerr, seen>>

\* main, line 253: print_aligned_header()?
print_aligned_header ==
    /\ pc = "print_aligned_header"
    /\ \E w \in WriteOutcomes :
         IF w = "ok"
         THEN /\ out' = out \o HeaderBlock
              /\ pc' = "print_aligned_rows"
              /\ UNCHANGED <<werr, status>>
         ELSE /\ werr' = w
              /\ status' = 1
              /\ pc' = "exited"
              /\ UNCHANGED out
    /\ UNCHANGED <<file, closed, pos, cols, header_bytes, header_repeat,
                   max_value_length, borders, line_num, fault, rerr, seen>>

\* line_num += 1 on a u16: at 65535 the addition panics in a build with
\* overflow checks and wraps to 0 in one without.
OverflowOutcomes == IF line_num + 1 >= U16 THEN {"panic", "wrap"} ELSE {"none"}

Result(k, o, n, f, we, re) ==
    [k |-> k, out |-> o, line_num |-> n, fault |-> f, werr |-> we, rerr |-> re]

\* One iteration of the loop of print_aligned_rows on the outcome l of
\* read_line (idx: its index in the file), with write outcome w.
RowStep(l, idx, w, ov) ==
    IF ~l.ok
    THEN Result("return", out, line_num, fault, werr, "print_aligned_rows")
    ELSE IF LineBytes(l) = 0
    THEN Result("return", out, line_num, fault, werr, rerr)
    ELSE IF ov = "panic"
    THEN Result("panic", out, line_num, "attempt to add with overflow", werr, rerr)
    ELSE
      LET n == (line_num + 1) % U16
          line == line_parse(l)
          wide == Len(line) > Len(cols)
          repeat == header_repeat.some /\ header_repeat.v # 0
                    /\ n % header_repeat.v = 0
          block == IF repeat THEN HeaderBlock ELSE <<>>
          \* stdout is line buffered: an error of the sink surfaces at a
          \* line terminator
          flushed == (repeat /\ borders) \/ ~wide
          cells(k) == Piece("cells", idx - 1, k, CellsWidth(line, cols))
      IN IF header_repeat.some /\ header_repeat.v = 0
         THEN Result("panic", out, n,
                     "attempt to calculate the remainder with a divisor of zero",
                     werr, rerr)
         ELSE IF w # "ok" /\ flushed
         THEN Result("err", out, n, fault, w, rerr)
         ELSE IF wide
         THEN Result("panic", out \o block \o <<cells(Len(cols))>>, n,
                     "No column for i=", werr, rerr)
         ELSE Result("continue", out \o block \o <<cells(Len(line)), NL>>, n,
                     fault, werr, rerr)

\* Exit status of main once a print_aligned_rows call has ended with k:
\* line 254 propagates any Err with `?`; lines 256-265 map BrokenPipe to
\* exit(0) and any other Err to exit(1).  -1: main goes on.
RowsStatus(call, k, kind) ==
    IF k = "continue" THEN -1
    ELSE IF k = "panic" THEN 101
    ELSE IF call = "print_aligned_rows"
    THEN (IF k = "err" THEN 1 ELSE -1)
    ELSE (IF k = "err" /\ kind # "BrokenPipe" THEN 1 ELSE 0)

\* DelimitedFile::print_aligned_rows, one iteration of its loop, and what
\* main does with the call's result.
print_aligned_rows(In) ==
    /\ pc \in {"print_aligned_rows", "print_aligned_rows_2"}
    /\ \E l \in Reads(In.lines, In.rows), w \in WriteOutcomes, ov \in OverflowOutcomes :
         LET r == RowStep(l, LineIndexAt(file, pos), w, ov)
             st == RowsStatus(pc, r.k, r.werr)
         IN /\ Consume(l)
            /\ out' = r.out
            /\ fault' = r.fault
            /\ werr' = r.werr
            /\ rerr' = r.rerr
            /\ status' = st
            /\ pc' = IF st # -1 THEN "exited"
                     ELSE IF r.k = "return" THEN "print_aligned_rows_2"
                     ELSE pc
            /\ line_num' = IF r.k = "return" THEN 0 ELSE r.line_num
    /\ UNCHANGED <<cols, header_bytes, header_repeat, max_value_length,
                   borders, seen>>

\* DelimitedFile::set_max_value_length, called on an analysed file as in
\* tests::test_print_length.
set_max_value_length(MVL) ==
    /\ pc = "seek_to_data"
    /\ \E m \in MVL : /\ m # max_value_length
                      /\ max_value_length' = m
    /\ UNCHANGED <<pc, file, closed, pos, cols, header_bytes, header_repeat,
                   borders, line_num, out, status, fault, werr, rerr, seen>>

----------------------------------------------------------------------------
(* Inputs                                                                  *)

\* Rows of 1..W fields holding consecutive strings of the sequence T, from
\* any of them on (cyclically): the fields of one row differ.
Rot(T, W) ==
    {[i \in 1..w |-> T[((k + i - 2) % Len(T)) + 1]] : w \in 1..W, k \in 1..Len(T)}

\* A line that is not valid UTF-8.
BadLine == Line(<<Str(0, 1, FALSE)>>, FALSE)

Lines(T, W) == {Line(fs, TRUE) : fs \in Rot(T, W)} \cup {BadLine}

\* The inputs of a run of main(): names "ab"; values "", "7", " xy ".
RunInput ==
    [headers |-> Lines(<<Str(0, 2, FALSE)>>, MaxFields),
     lines |-> Lines(<<EmptyStr, Str(0, 1, TRUE), Str(2, 2, FALSE)>>, MaxFields),
     rows |-> MaxRows]

\* The inputs of a run of the library calls: also strings whose length is
\* at the end of the u16 range and beyond it.
LibInput ==
    [headers |-> Lines(<<Str(1, 2, FALSE), Str(0, U16, FALSE)>>, MaxFields),
     lines |-> Lines(<<EmptyStr, Str(0, 1, TRUE), Str(2, 2, FALSE),
                       Str(0, U16 - 1, TRUE), Str(0, U16 + 1, FALSE)>>, MaxFields),
     rows |-> MaxLibRows]

HeaderRepeats == {None, Some(0), Some(1), Some(2)}

ValueLengths == {None, Some(1)}

LibValueLengths == {None, Some(1), Some(4)}

\* A run of main().
Next ==
    \/ configure(HeaderRepeats, ValueLengths, BOOLEAN)
    \/ read_headers(RunInput)
    \/ analyze_rows(RunInput)
    \/ seek_to_data
    \/ print_aligned_header
    \/ print_aligned_rows(RunInput)

Spec == Init /\ [][Next]_vars

\* The library calls in the order of tests::test_print_length: new,
\* set_max_value_length, read_headers, analyze_rows, then print_length with
\* set_max_value_length called again on the analysed file.
LibNext ==
    \/ configure({None}, LibValueLengths, {FALSE})
    \/ read_headers(LibInput)
    \/ analyze_rows(LibInput)
    \/ set_max_value_length(LibValueLengths)

LibSpec == Init /\ [][LibNext]_vars

----------------------------------------------------------------------------
(* Notions the properties share                                            *)

\* The header buffer read_headers parsed: "" for an empty input.
HeaderBuf == IF file = <<>> THEN EofBuf ELSE file[1]

\* read_headers has returned Ok.
HeadersRead == pc \notin {"new", "read_headers"} /\ rerr # "read_headers"

\* analyze_rows has returned.
Analysed == HeadersRead /\ pc # "analyze_rows"

\* The values analyze_rows observed at column position i, in order.
Observed(i) ==
    LET at(j) == line_parse(file[seen[j]])
        has == {j \in 1..Len(seen) : i <= Len(at(j))}
    IN {at(j)[i] : j \in has}

\* The rows and header names written, without rules and line terminators.
RowStream == SelectSeq(out, LAMBDA p : p.t \in {"names", "cells"})

\* The data lines rendered, in order (as indices in file).
Rendered ==
    LET cells == SelectSeq(out, LAMBDA p : p.t = "cells")
    IN [k \in 1..Len(cells) |-> cells[k].row + 1]

----------------------------------------------------------------------------
(* Properties.  Those about rendering are stated for runs in which no      *)
(* read_line has failed (rerr = "none"), so that each is decided by the    *)
(* code it is about.                                                       *)

\* C1: for every data row, whatever its field count, analysis and rendering
\* complete without a fault: a row emits min(fields, columns) cells, and a
\* field at a position with no column is skipped.
C1_AnyRowShapeRenders ==
    rerr = "none" =>
      /\ fault # "No column for i="
      /\ \A k \in 1..Len(out) :
           out[k].t = "cells" =>
             out[k].n = Min(Len(file[out[k].row + 1].fields), Len(cols))

\* C2: a write that fails with a broken pipe, anywhere in the render pass,
\* ends the run with status 0; only other write failures end it non-zero.
C2_BrokenPipeExitsZero ==
    (rerr = "none" /\ file # <<>>) =>
      /\ werr = "BrokenPipe" => status = 0
      /\ (werr # "none" /\ status # 0) => werr = "Other"

\* C3: with header_repeat = N, after the first header block a header block
\* is written exactly after each data row whose 1-based index is a multiple
\* of N, and the counter tested equals the number of data rows read.
C3_HeaderAfterEveryNthRow ==
    (header_repeat.some /\ header_repeat.v > 0 /\ pc = "print_aligned_rows"
       /\ rerr = "none") =>
      /\ \A k \in 2..Len(RowStream) :
           (RowStream[k].t = "names")
             = (RowStream[k - 1].t = "cells"
                /\ RowStream[k - 1].row % header_repeat.v = 0)
      /\ line_num = Len(Rendered)

\* C4: after read_headers and analyze_rows every column's max_length is at
\* least the length of its name and of every value observed at its position.
C4_MaxLengthCoversAll ==
    (Analysed /\ rerr = "none") =>
      \A i \in 1..Len(cols) :
        /\ cols[i].max_length >= StrLen(cols[i].name)
        /\ \A v \in Observed(i) : cols[i].max_length >= StrLen(v)

\* C5: a column is Numeric exactly when every value observed at its position
\* parsed as a number, the empty value counting as non-numeric; and a column
\* that is Textual stays Textual.
C5_KindState ==
    HeadersRead =>
      \A i \in 1..Len(cols) :
        /\ (cols[i].kind = "Numeric")
             = (\A v \in Observed(i) : v.len > 0 /\ v.digits)
        /\ (\E v \in Observed(i) : StrLen(v) = 0) => cols[i].kind = "Textual"

C5_KindStep ==
    \A i \in 1..Len(cols) :
      cols[i].kind = "Textual" => (i <= Len(cols') /\ cols'[i].kind = "Textual")

C5_NumericIffAllParsed == [](C5_KindState) /\ [][C5_KindStep]_vars

\* A Numeric and a Textual column after an analysis of two lines, the
\* Textual one having observed an empty value.
C5_Witness ==
    /\ Analysed /\ Len(seen) >= 2
    /\ \E i, k \in 1..Len(cols) :
         /\ cols[i].kind = "Numeric" /\ Observed(i) # {}
         /\ cols[k].kind = "Textual" /\ EmptyStr \in Observed(k)

\* C6: print_length(col) is min(max_length, cap) with a cap and max_length
\* without one; set_max_value_length on an analysed file changes it
\* without touching the columns or the reader.
ExpectedLength(col, cap) ==
    IF cap.some THEN (IF col.max_length < cap.v THEN col.max_length ELSE cap.v)
    ELSE col.max_length

C6_LengthState ==
    \A i \in 1..Len(cols) :
      print_length(cols[i]) = ExpectedLength(cols[i], max_value_length)

C6_LengthStep ==
    (pc = "seek_to_data" /\ max_value_length' # max_value_length) =>
      /\ cols' = cols /\ file' = file /\ pos' = pos /\ seen' = seen
      /\ \A i \in 1..Len(cols) :
           print_length(cols[i])' = ExpectedLength(cols[i], max_value_length')

C6_PrintLengthIsCappedMax == [](C6_LengthState) /\ [][C6_LengthStep]_vars

\* An analysed file whose cap cuts one column and leaves another whole.
C6_Witness ==
    /\ pc = "seek_to_data" /\ max_value_length.some
    /\ \E i, k \in 1..Len(cols) :
         /\ print_length(cols[i]) < cols[i].max_length
         /\ print_length(cols[k]) = cols[k].max_length

\* C7 as claimed: read_headers on an empty input leaves no column and
\* header_bytes = 0.
C7_EmptyInputNoColumns ==
    (HeadersRead /\ file = <<>>) => (Len(cols) = 0 /\ header_bytes = 0)

\* C7 as amended: read_headers on an empty input leaves header_bytes = 0 and
\* one column of empty name; in general there is one column per field of the
\* header line, named by the trimmed field.
C7_ColumnPerHeaderField ==
    HeadersRead =>
      /\ Len(cols) = Len(HeaderBuf.fields)
      /\ \A i \in 1..Len(cols) :
           /\ cols[i].name.len = HeaderBuf.fields[i].len
           /\ cols[i].name.pad = 0
      /\ header_bytes = LineBytes(HeaderBuf)
      /\ file = <<>> =>
           /\ header_bytes = 0
           /\ Len(cols) = 1
           /\ StrLen(cols[1].name) = 0

\* read_headers has returned on an empty input.
C7_Witness == pc = "analyze_rows" /\ file = <<>> /\ closed

\* C8: a read_line that fails in analyze_rows or print_aligned_rows ends the
\* run non-zero; after a failure in analysis neither seek_to_data nor a print
\* step is reached.
C8_ReadFailureEndsRun ==
    rerr # "none" => (pc = "exited" /\ status = 1 /\ out = <<>>)

\* C9: every header block writes the names as a complete line: whatever is
\* written after the names starts with a line terminator.
C9_NamesEndWithNewline ==
    \A k \in 1..(Len(out) - 1) :
      (out[k].t = "names" /\ rerr = "none") => out[k + 1].t = "nl"

\* C10: in a complete run the render pass reads exactly the data lines
\* analyze_rows read, in order, one rendered row per data line, never the
\* header line, and the second print_aligned_rows call finds end-of-stream.
C10_RenderReplaysAnalysis ==
    (pc = "exited" /\ status = 0 /\ werr = "none") =>
      /\ Rendered = seen
      /\ Len(Rendered) = Cardinality({i \in 2..Len(file) : file[i].ok})
      /\ \A k \in 1..Len(Rendered) : Rendered[k] > 1

====
